---- MODULE Spec2Model ----
(***************************************************************************)
(* The EPUB image-optimisation pipeline of ewa:                            *)
(*   - process_epub_pipeline (src/ewa/utils/epub/epub_pipeline.py): the    *)
(*     orchestrator, the image tasks, the chapter tasks, the removal of    *)
(*     superseded images, the packaging, the report and the cleanup;       *)
(*   - EPUB.move_original_to (src/plugins/epub/src/epub/epub_classes.py).  *)
(*                                                                         *)
(* File names are sequences of tokens: the characters of the stem followed *)
(* by one token for the suffix, so that Python's substring test and        *)
(* str.replace keep their meaning on them.                                 *)
(***************************************************************************)
EXTENDS Naturals, Integers, Sequences, FiniteSets, Bags, TLC

\* ------------------------------------------------------------------ bounds
MaxImages == 2
NumDocs == 2
MaxRefs == 1
MaxPlus == 2

\* ------------------------------------------------------- program constants
SizeThreshold == 51200
MaxWidth == 1080

\* --------------------------------------------------------------- universes
A_PNG == <<"a", ".png">>
AA_PNG == <<"a", "a", ".png">>
A_JPG == <<"a", ".jpg">>

NameUniverse == {A_PNG, AA_PNG, A_JPG}

ImagesPrefix == "../Images/"

Sizes == {2048, 102400}
Modes == {"RGB", "RGBA", "L"}
AlphaMins == {0, 254, 255}
Dimensions == {<<800, 600>>, <<2000, 3000>>}

\* ------------------------------------------------------------ pure helpers
\* Path.suffix.lower()
LowerSuffix(name) ==
  LET s == name[Len(name)]
  IN  IF s = ".JPG" THEN ".jpg" ELSE IF s = ".PNG" THEN ".png" ELSE s

\* Path.with_suffix(suffix)
WithSuffix(name, suffix) == SubSeq(name, 1, Len(name) - 1) \o <<suffix>>

\* Python: s in t, for strings
IsSubstring(s, t) ==
  \E i \in 1..(Len(t) + 1) :
     /\ i + Len(s) - 1 <= Len(t)
     /\ SubSeq(t, i, i + Len(s) - 1) = s

RECURSIVE StrReplace(_, _, _)
\* Python: t.replace(old, new), every non-overlapping occurrence from the left
StrReplace(t, old, new) ==
  IF Len(t) < Len(old) \/ Len(old) = 0 THEN t
  ELSE IF SubSeq(t, 1, Len(old)) = old
       THEN new \o StrReplace(SubSeq(t, Len(old) + 1, Len(t)), old, new)
       ELSE <<t[1]>> \o StrReplace(SubSeq(t, 2, Len(t)), old, new)

\* the value of a src attribute that points at an image file
SrcOf(name) == <<ImagesPrefix>> \o name

\* the file name a src attribute points at
FileOfSrc(src) == SubSeq(src, 2, Len(src))

Orderings(S) ==
  {f \in [1..Cardinality(S) -> S] : \A i, j \in 1..Cardinality(S) : i # j => f[i] # f[j]}

SeqsUpTo(S, n) == UNION {[1..k -> S] : k \in 0..n}

\* ------------------------------------------------- ImageResizeStats (record)
\* calculate_new_dimensions(max_width, max_height=None)
CalculateNewDimensions(dims, maxWidth) ==
  IF dims[1] > maxWidth
  THEN <<maxWidth, (dims[2] * maxWidth) \div dims[1]>>
  ELSE dims

\* a calculate_new_mode that takes any visible pixel for full opacity
CalculateNewModeMutant(mode, alphaMin) ==
  IF mode = "RGBA"
  THEN (IF alphaMin > 0 THEN "RGB" ELSE "RGBA")
  ELSE mode

\* calculate_new_mode: the new mode
CalculateNewMode(mode, alphaMin) ==
  IF mode = "RGBA"
  THEN (IF alphaMin = 255 THEN "RGB" ELSE "RGBA")
  ELSE mode

\* calculate_new_mode: the new path
CalculateNewPath(path, newMode) ==
  IF newMode = "RGB" THEN WithSuffix(path, ".jpg") ELSE path

Renamed(r) == r.new # r.orig

ReferencesUpdateStatus(r) ==
  IF r.total = 0 THEN "orphaned"
  ELSE IF r.updated = 0 THEN "failed"
  ELSE IF r.updated = r.total THEN "success"
  ELSE "partial"

\* A result: original_path, new_path, success, error (set or not),
\* total_references, updated_references; did is history: what the task did
\* ("skipped", "noop", "saved", "failed").
\* the result returned for a file that is filtered out
SkippedStats(path) ==
  [orig |-> path, new |-> path, success |-> FALSE, error |-> TRUE,
   total |-> 0, updated |-> 0, did |-> "skipped"]

\* the placeholder of a task that has not returned
NoStats == [orig |-> <<>>, new |-> <<>>, success |-> FALSE, error |-> FALSE,
            total |-> 0, updated |-> 0, did |-> "nothing"]

\* ------------------------------------------------------------------- state
VARIABLES
  pc,          \* position of process_epub_pipeline
  raised,      \* an exception reached the except clause of the pipeline
  epubAt,      \* where the original archive file is
  tempCreated, \* create_epub_data made the temporary directory
  tempExists,  \* the temporary directory is on disk
  mimetype,    \* mimetype_file.exists(), as _archive_directory finds it
  imgFiles,    \* names of the files in EPUB/Images of the temporary directory
  order,       \* data.file_stats restricted to EPUB/Images, in rglob order
  nChapters,   \* number of chapter files in EPUB/chapters
  docDisk,     \* the src attributes of each chapter file, as on disk
  docInput,    \* history: the src attributes of each chapter file, as extracted
  task,        \* state of each image task: "pending", "done", "raised"
  results,     \* data.resize_results
  dpc,         \* position of each chapter task
  idx,         \* index of the img tag a chapter task is at
  soup,        \* the parsed chapter of each chapter task
  pendingUpd,  \* pending_updates of each chapter task
  loaded,      \* value of the counter a chapter task has loaded under the lock (0 outside)
  lock,        \* holder of the Lock (0: free)
  discovered,  \* history: matches found for each result
  docFailure,  \* history: how each chapter task failed ("none", "parse", "write")
  toRemove,    \* images_to_remove still to be unlinked
  selected,    \* history: len(images_to_remove) when it was compared
  deleted,     \* history: image files unlinked during the run
  target,      \* the directory _remove_unused_images returned
  archive,     \* the file written by _archive_directory
  zip,         \* the entries of that file: the first one and the bag of the others
  report,      \* the success flag of the report returned
  rmtreeFailed,\* history: shutil.rmtree raised in cleanup_stage
  mvpc,        \* position of EPUB.move_original_to
  mvSrc,       \* the archive file is at self.path, where the call found it
  mvDst,       \* what the call has put at path: "none", "original", "partial"
  mvDir,       \* other files of the directory: k stands for stem + k times "+"
  mvRet,       \* the value returned: "none", "true", "false"
  mvOverwrite, \* argument overwrite
  mvTryRename, \* argument try_rename
  mvPlus,      \* number of "+" appended to the stem of path
  mvClobbered, \* history: the call wrote over a file that was at path
  ipc,         \* position of the two successive transforms of one image file
  file0,       \* the image file before the first transform
  run1,        \* what the first transform returned and left on disk
  run2,        \* what the second transform returned and left on disk
  dimpc,       \* position of the call of calculate_new_dimensions
  dimArgs,     \* its arguments: original_dimensions, max_width, max_height
  dimOut,      \* the new_dimensions it set
  opc,         \* position of the call of ImageProcessor.optimize_image
  ofile,       \* the image file it is called on
  odisk,       \* the names of the files on disk
  ores,        \* the result it returned
  apc,         \* position of the call of _archive_directory
  adir,        \* the regular files of source_dir, as relative paths
  azip         \* the entries of the archive written

pipeVars == <<pc, raised, epubAt, tempCreated, tempExists, mimetype, imgFiles,
              order, nChapters, docDisk, task, results, dpc, idx, soup,
              pendingUpd, loaded, lock, discovered, docFailure, toRemove,
              selected, deleted, target, archive, zip, report, rmtreeFailed,
              docInput>>

moveVars == <<mvpc, mvSrc, mvDst, mvDir, mvRet, mvOverwrite, mvTryRename, mvPlus,
              mvClobbered>>

imageVars == <<ipc, file0, run1, run2>>

dimVars == <<dimpc, dimArgs, dimOut>>

optVars == <<opc, ofile, odisk, ores>>

arcVars == <<apc, adir, azip>>

\* what the pipeline leaves alone
restVars == <<moveVars, imageVars, dimVars, optVars, arcVars>>

vars == <<pipeVars, moveVars, imageVars, dimVars, optVars, arcVars>>

Docs == 1..NumDocs

PipeInit ==
  /\ pc = "create"
  /\ raised = FALSE
  /\ epubAt = "source"
  /\ tempCreated = FALSE
  /\ tempExists = FALSE
  /\ mimetype = FALSE
  /\ imgFiles = {}
  /\ order = <<>>
  /\ nChapters = 0
  /\ docDisk = [d \in Docs |-> <<>>]
  /\ docInput = [d \in Docs |-> <<>>]
  /\ task = <<>>
  /\ results = <<>>
  /\ dpc = [d \in Docs |-> "idle"]
  /\ idx = [d \in Docs |-> 0]
  /\ soup = [d \in Docs |-> <<>>]
  /\ pendingUpd = [d \in Docs |-> <<>>]
  /\ loaded = [d \in Docs |-> 0]
  /\ lock = 0
  /\ discovered = <<>>
  /\ docFailure = [d \in Docs |-> "none"]
  /\ toRemove = <<>>
  /\ selected = 0
  /\ deleted = {}
  /\ target = "none"
  /\ archive = "none"
  /\ zip = [first |-> <<>>, rest |-> EmptyBag]
  /\ report = "none"
  /\ rmtreeFailed = FALSE

MoveIdle ==
  /\ mvpc = "idle"
  /\ mvSrc = FALSE
  /\ mvDst = "none"
  /\ mvDir = {}
  /\ mvRet = "none"
  /\ mvOverwrite = FALSE
  /\ mvTryRename = FALSE
  /\ mvPlus = 0
  /\ mvClobbered = FALSE

ImageIdle ==
  /\ ipc = "idle"
  /\ file0 = <<>>
  /\ run1 = <<>>
  /\ run2 = <<>>

DimIdle ==
  /\ dimpc = "idle"
  /\ dimArgs = <<>>
  /\ dimOut = <<>>

OptIdle ==
  /\ opc = "idle"
  /\ ofile = <<>>
  /\ odisk = {}
  /\ ores = <<>>

ArcIdle ==
  /\ apc = "idle"
  /\ adir = {}
  /\ azip = <<>>

Init == PipeInit /\ MoveIdle /\ ImageIdle /\ DimIdle /\ OptIdle /\ ArcIdle

\* ----------------------------------------------------- pipeline: stages 0-3
SupportedSuffixes == {".jpg", ".jpeg", ".png"}

\* the src values a chapter may contain: a name that is not in the archive
\* is a reference to an unknown image
RefUniverse == {SrcOf(n) : n \in NameUniverse}

\* a pipeline whose cleanup is not in a finally clause: the except clause returns
PipelineFailedMutant ==
  /\ raised' = TRUE
  /\ report' = FALSE
  /\ pc' = "done"

\* the except clause of process_epub_pipeline: failure report, then finally
PipelineFailed ==
  /\ raised' = TRUE
  /\ report' = FALSE
  /\ pc' = "cleanup"

\* create_epub_data
CreateEpubData ==
  /\ pc = "create"
  /\ \E valid \in BOOLEAN :
       IF valid
       THEN /\ tempCreated' = TRUE
            /\ tempExists' = TRUE
            /\ pc' = "extract"
            /\ UNCHANGED <<raised, report>>
       ELSE /\ PipelineFailed
            /\ UNCHANGED <<tempCreated, tempExists>>
  /\ UNCHANGED <<epubAt, mimetype, imgFiles, order, nChapters, docDisk, task,
                 results, dpc, idx, soup, pendingUpd, loaded, lock, discovered,
                 docFailure, toRemove, deleted, target, archive, rmtreeFailed, selected, zip, docInput, restVars>>

\* extract_epub: the archive's content is the input of the run
ExtractEpub ==
  /\ pc = "extract"
  /\ \/ /\ PipelineFailed
        /\ UNCHANGED <<imgFiles, nChapters, docDisk, docInput>>
     \/ \E imgs \in SUBSET NameUniverse, n \in 0..NumDocs :
          /\ Cardinality(imgs) <= MaxImages
          /\ \E content \in [1..n -> SeqsUpTo(RefUniverse, MaxRefs)] :
               /\ docDisk' = [d \in Docs |-> IF d <= n THEN content[d] ELSE <<>>]
               /\ docInput' = docDisk'
          /\ imgFiles' = imgs
          /\ nChapters' = n
          /\ pc' = "analyze"
          /\ UNCHANGED <<raised, report>>
  /\ UNCHANGED <<epubAt, tempCreated, tempExists, mimetype, order, task,
                 results, dpc, idx, soup, pendingUpd, loaded, lock, discovered,
                 docFailure, toRemove, deleted, target, archive, rmtreeFailed, selected, zip, restVars>>

\* analyze_epub_files: rglob lists the files in an order the file system picks
AnalyzeEpubFiles ==
  /\ pc = "analyze"
  /\ order' \in Orderings(imgFiles)
  /\ pc' = "resize"
  /\ UNCHANGED <<raised, epubAt, tempCreated, tempExists, mimetype, imgFiles,
                 nChapters, docDisk, task, results, dpc, idx, soup, pendingUpd,
                 loaded, lock, discovered, docFailure, toRemove, deleted,
                 target, archive, report, rmtreeFailed, selected, zip, docInput, restVars>>

\* resize_images: submits one task per image, or returns at once
ResizeImages ==
  /\ pc = "resize"
  /\ IF order = <<>>
     THEN /\ results' = <<>>
          /\ pc' = "update"
          /\ UNCHANGED <<task, discovered>>
     ELSE /\ task' = [k \in 1..Len(order) |-> "pending"]
          /\ results' = [k \in 1..Len(order) |-> NoStats]
          /\ discovered' = [k \in 1..Len(order) |-> 0]
          /\ pc' = "resizing"
  /\ UNCHANGED <<raised, epubAt, tempCreated, tempExists, mimetype, imgFiles,
                 order, nChapters, docDisk, dpc, idx, soup, pendingUpd,
                 loaded, lock, docFailure, toRemove, deleted,
                 target, archive, report, rmtreeFailed, selected, zip, docInput, restVars>>

\* _resize_single_image, one call
ResizeSingleImage(k) ==
  /\ pc = "resizing"
  /\ task[k] = "pending"
  /\ LET path == order[k] IN
     \E size \in Sizes :
       IF LowerSuffix(path) \notin SupportedSuffixes \/ size < SizeThreshold
       THEN /\ results' = [results EXCEPT ![k] = SkippedStats(path)]
            /\ task' = [task EXCEPT ![k] = "done"]
            /\ UNCHANGED imgFiles
       ELSE \E fault \in {"none", "open", "resize", "save", "savePartial"},
               mode \in Modes, alphaMin \in AlphaMins, dims \in Dimensions :
            LET newMode   == CalculateNewMode(mode, alphaMin)
                newPath   == CalculateNewPath(path, newMode)
                newDims   == CalculateNewDimensions(dims, MaxWidth)
                toResize  == dims # newDims
                toConvert == newMode = "RGB"
                toSave    == toResize \/ toConvert
                stats(ok) == [orig |-> path, new |-> newPath, success |-> ok,
                              error |-> ~ok, total |-> 0, updated |-> 0,
                              did |-> IF ~ok THEN "failed"
                                      ELSE IF toSave THEN "saved" ELSE "noop"]
            IN
            CASE fault = "open" ->
                   \* resize_stats is unbound in the except clause: the task raises
                   /\ task' = [task EXCEPT ![k] = "raised"]
                   /\ UNCHANGED <<results, imgFiles>>
              [] fault = "resize" ->
                   /\ toResize
                   /\ results' = [results EXCEPT ![k] = stats(FALSE)]
                   /\ task' = [task EXCEPT ![k] = "done"]
                   /\ UNCHANGED imgFiles
              [] fault \in {"save", "savePartial"} ->
                   /\ toSave
                   /\ results' = [results EXCEPT ![k] = stats(FALSE)]
                   /\ task' = [task EXCEPT ![k] = "done"]
                   /\ imgFiles' = IF fault = "savePartial"
                                  THEN imgFiles \cup {newPath} ELSE imgFiles
              [] fault = "none" ->
                   /\ results' = [results EXCEPT ![k] = stats(TRUE)]
                   /\ task' = [task EXCEPT ![k] = "done"]
                   /\ imgFiles' = IF toSave THEN imgFiles \cup {newPath} ELSE imgFiles
  /\ UNCHANGED <<pc, raised, epubAt, tempCreated, tempExists, mimetype,
                 order, nChapters, docDisk, dpc, idx, soup, pendingUpd,
                 loaded, lock, discovered, docFailure, toRemove, deleted,
                 target, archive, report, rmtreeFailed, selected, zip, docInput, restVars>>

\* an executor that is left as soon as one image task has returned
AllImageTasksDoneMutant == \E k \in 1..Len(task) : task[k] # "pending"

\* the with-block of the executor is left when every image task has returned
AllImageTasksDone == \A k \in 1..Len(task) : task[k] # "pending"

\* resize_images returns, or the exception of a task is raised from executor.map
ResizeImagesReturn ==
  /\ pc = "resizing"
  /\ AllImageTasksDone
  /\ IF \E k \in 1..Len(task) : task[k] = "raised"
     THEN PipelineFailed
     ELSE /\ pc' = "update"
          /\ UNCHANGED <<raised, report>>
  /\ UNCHANGED <<epubAt, tempCreated, tempExists, mimetype, imgFiles,
                 order, nChapters, docDisk, task, results, dpc, idx, soup,
                 pendingUpd, loaded, lock, discovered, docFailure, toRemove,
                 deleted, target, archive, rmtreeFailed, selected, zip, docInput, restVars>>

\* ------------------------------------------- pipeline: stage 4 (references)
Chapters == 1..nChapters

\* update_references: submits one task per chapter, or returns at once
UpdateReferences ==
  /\ pc = "update"
  /\ IF nChapters = 0 \/ results = <<>>
     THEN /\ pc' = "package"
          /\ UNCHANGED <<dpc, lock>>
     ELSE /\ dpc' = [d \in Docs |-> IF d <= nChapters THEN "start" ELSE "idle"]
          /\ lock' = 0
          /\ pc' = "updating"
  /\ UNCHANGED <<raised, epubAt, tempCreated, tempExists, mimetype, imgFiles,
                 order, nChapters, docDisk, task, results, idx, soup,
                 pendingUpd, loaded, discovered, docFailure, toRemove,
                 deleted, target, archive, report, rmtreeFailed, selected, zip, docInput, restVars>>

\* the first result whose original name occurs in the src value (0: none)
FirstMatch(src) ==
  LET hits == {k \in 1..Len(results) : IsSubstring(results[k].orig, src)}
  IN  IF hits = {} THEN 0 ELSE CHOOSE k \in hits : \A j \in hits : k <= j

\* the tag a chapter task is looking at
CurrentSrc(d) == soup[d][idx[d]]

\* _update_single_chapter: read_text and BeautifulSoup
ReadChapter(d) ==
  /\ pc = "updating"
  /\ dpc[d] = "start"
  /\ \/ /\ soup' = [soup EXCEPT ![d] = docDisk[d]]
        /\ idx' = [idx EXCEPT ![d] = 1]
        /\ pendingUpd' = [pendingUpd EXCEPT ![d] = [k \in 1..Len(results) |-> 0]]
        /\ dpc' = [dpc EXCEPT ![d] = "scan"]
        /\ UNCHANGED docFailure
     \/ /\ dpc' = [dpc EXCEPT ![d] = "failed"]
        /\ docFailure' = [docFailure EXCEPT ![d] = "parse"]
        /\ UNCHANGED <<soup, idx, pendingUpd>>
  /\ UNCHANGED <<pc, raised, epubAt, tempCreated, tempExists, mimetype, imgFiles,
                 order, nChapters, docDisk, task, results, loaded, lock,
                 discovered, toRemove, deleted, target, archive, report,
                 rmtreeFailed, selected, zip, docInput, restVars>>

\* _update_single_chapter: an img tag none of the results matches
SkipTag(d) ==
  /\ pc = "updating"
  /\ dpc[d] = "scan"
  /\ idx[d] <= Len(soup[d])
  /\ FirstMatch(CurrentSrc(d)) = 0
  /\ idx' = [idx EXCEPT ![d] = @ + 1]
  /\ UNCHANGED <<dpc, docFailure>>
  /\ UNCHANGED <<pc, raised, epubAt, tempCreated, tempExists, mimetype, imgFiles,
                 order, nChapters, docDisk, task, results, soup, pendingUpd,
                 loaded, lock, discovered, toRemove, deleted, target, archive,
                 report, rmtreeFailed, selected, zip, docInput, restVars>>

\* a counter that is incremented without the lock
LockFreeMutant == TRUE

\* "with lock:" is entered only while no other task holds the lock
LockFree == lock = 0

\* _update_single_chapter: a tag matches a result; the task enters the lock
\* and loads total_references (first half of "+= 1")
LoadTotalReferences(d) ==
  /\ pc = "updating"
  /\ dpc[d] = "scan"
  /\ idx[d] <= Len(soup[d])
  /\ FirstMatch(CurrentSrc(d)) # 0
  /\ LockFree
  /\ LET k == FirstMatch(CurrentSrc(d)) IN
       /\ loaded' = [loaded EXCEPT ![d] = results[k].total]
       /\ discovered' = [discovered EXCEPT ![k] = @ + 1]
  /\ lock' = d
  /\ dpc' = [dpc EXCEPT ![d] = "locked"]
  /\ UNCHANGED <<pc, raised, epubAt, tempCreated, tempExists, mimetype, imgFiles,
                 order, nChapters, docDisk, task, results, idx, soup,
                 pendingUpd, docFailure, toRemove, deleted, target, archive,
                 report, rmtreeFailed, selected, zip, docInput, restVars>>

\* _update_single_chapter: the task stores total_references and leaves the
\* lock, then rewrites the tag if the result is renamed and successful
StoreTotalReferences(d) ==
  /\ pc = "updating"
  /\ dpc[d] = "locked"
  /\ LET k == FirstMatch(CurrentSrc(d))
         r == results[k]
     IN
       /\ results' = [results EXCEPT ![k].total = loaded[d] + 1]
       /\ IF ~Renamed(r) \/ ~r.success
          THEN UNCHANGED <<soup, pendingUpd>>
          ELSE /\ soup' = [soup EXCEPT ![d][idx[d]] =
                             StrReplace(CurrentSrc(d), r.orig, r.new)]
               /\ pendingUpd' = [pendingUpd EXCEPT ![d][k] = @ + 1]
  /\ lock' = 0
  /\ loaded' = [loaded EXCEPT ![d] = 0]
  /\ idx' = [idx EXCEPT ![d] = @ + 1]
  /\ dpc' = [dpc EXCEPT ![d] = "scan"]
  /\ UNCHANGED <<pc, raised, epubAt, tempCreated, tempExists, mimetype, imgFiles,
                 order, nChapters, docDisk, task, discovered,
                 docFailure, toRemove, deleted, target, archive, report,
                 rmtreeFailed, selected, zip, docInput, restVars>>

\* _update_single_chapter: write_bytes(soup.prettify()); a failed write leaves
\* the file as it was or truncated
WriteChapter(d) ==
  /\ pc = "updating"
  /\ dpc[d] = "scan"
  /\ idx[d] > Len(soup[d])
  /\ \/ /\ docDisk' = [docDisk EXCEPT ![d] = soup[d]]
        /\ dpc' = [dpc EXCEPT ![d] = "written"]
        /\ UNCHANGED docFailure
     \/ /\ docDisk' \in {docDisk, [docDisk EXCEPT ![d] = <<>>]}
        /\ dpc' = [dpc EXCEPT ![d] = "failed"]
        /\ docFailure' = [docFailure EXCEPT ![d] = "write"]
  /\ UNCHANGED <<pc, raised, epubAt, tempCreated, tempExists, mimetype, imgFiles,
                 order, nChapters, task, results, idx, soup, pendingUpd, loaded,
                 lock, discovered, toRemove, deleted, target, archive, report,
                 rmtreeFailed, selected, zip, docInput, restVars>>

\* _update_single_chapter: under the lock, adds pending_updates to
\* updated_references
UpdateCounters(d) ==
  /\ pc = "updating"
  /\ dpc[d] = "written"
  /\ LockFree
  /\ results' = [k \in 1..Len(results) |->
                   [results[k] EXCEPT !.updated = @ + pendingUpd[d][k]]]
  /\ dpc' = [dpc EXCEPT ![d] = "done"]
  /\ UNCHANGED <<pc, raised, epubAt, tempCreated, tempExists, mimetype, imgFiles,
                 order, nChapters, docDisk, task, idx, soup, pendingUpd, loaded,
                 lock, discovered, docFailure, toRemove, deleted, target,
                 archive, report, rmtreeFailed, selected, zip, docInput, restVars>>

\* the with-block of the executor is left when every chapter task has returned
AllChapterTasksDone == \A d \in Chapters : dpc[d] \in {"done", "failed"}

\* update_references returns (a chapter task never raises)
UpdateReferencesReturn ==
  /\ pc = "updating"
  /\ AllChapterTasksDone
  /\ pc' = "package"
  /\ UNCHANGED <<raised, epubAt, tempCreated, tempExists, mimetype, imgFiles,
                 order, nChapters, docDisk, task, results, dpc, idx, soup,
                 pendingUpd, loaded, lock, discovered, docFailure, toRemove,
                 deleted, target, archive, report, rmtreeFailed, selected, zip, docInput, restVars>>

\* ---------------------------------------- pipeline: stage 5 (package_epub)
RECURSIVE ImagesToRemove(_)
\* _remove_unused_images: images_to_remove of the results k, k+1, ...
ImagesToRemove(k) ==
  IF k > Len(results) THEN <<>>
  ELSE LET r == results[k] IN
       (IF r.success
        THEN (IF Renamed(r) THEN <<r.orig>> ELSE <<>>)
        ELSE (IF Renamed(r) /\ r.new \in imgFiles THEN <<r.new>> ELSE <<>>))
       \o ImagesToRemove(k + 1)

RenamedCount == Cardinality({k \in 1..Len(results) : Renamed(results[k])})

\* _remove_unused_images, up to the unlink loop
RemoveUnusedImages ==
  /\ pc = "package"
  /\ LET images == ImagesToRemove(1) IN
       /\ selected' = Len(images)
       /\ IF images = <<>>
          THEN /\ target' = "unchanged"
               /\ pc' = "move"
               /\ UNCHANGED toRemove
          ELSE IF Len(images) # RenamedCount
          THEN /\ target' = "quarantine"
               /\ pc' = "move"
               /\ UNCHANGED toRemove
          ELSE /\ toRemove' = images
               /\ pc' = "removing"
               /\ UNCHANGED target
  /\ UNCHANGED <<raised, epubAt, tempCreated, tempExists, mimetype, imgFiles,
                 order, nChapters, docDisk, task, results, dpc, idx, soup,
                 pendingUpd, loaded, lock, discovered, docFailure, deleted,
                 archive, report, rmtreeFailed, zip, docInput, restVars>>

\* _remove_unused_images: one turn of the unlink loop
UnlinkImage ==
  /\ pc = "removing"
  /\ toRemove # <<>>
  /\ \/ /\ Head(toRemove) \in imgFiles
        /\ imgFiles' = imgFiles \ {Head(toRemove)}
        /\ deleted' = deleted \cup {Head(toRemove)}
        /\ toRemove' = Tail(toRemove)
        /\ UNCHANGED <<pc, target>>
     \/ /\ target' = "quarantine"
        /\ pc' = "move"
        /\ UNCHANGED <<imgFiles, deleted, toRemove>>
  /\ UNCHANGED <<raised, epubAt, tempCreated, tempExists, mimetype,
                 order, nChapters, docDisk, task, results, dpc, idx, soup,
                 pendingUpd, loaded, lock, discovered, docFailure,
                 archive, report, rmtreeFailed, selected, zip, docInput, restVars>>

\* _remove_unused_images returns (True, resized_dir)
RemoveUnusedImagesReturn ==
  /\ pc = "removing"
  /\ toRemove = <<>>
  /\ target' = "resized"
  /\ pc' = "archive"
  /\ UNCHANGED <<raised, epubAt, tempCreated, tempExists, mimetype, imgFiles,
                 order, nChapters, docDisk, task, results, dpc, idx, soup,
                 pendingUpd, loaded, lock, discovered, docFailure, toRemove,
                 deleted, archive, report, rmtreeFailed, selected, zip, docInput, restVars>>

\* names of the members of the working directory, relative to it
MimetypeFile == <<"mimetype">>
ChapterFile(d) == <<"EPUB/chapters/", d>>
ImageFile(name) == <<"EPUB/Images/">> \o name

\* an archive without entries
NoEntries == [first |-> <<>>, rest |-> EmptyBag]

\* zipf.write(mimetype_file, arcname="mimetype", compress_type=ZIP_STORED)
MimetypeEntry == <<MimetypeFile, "stored">>

\* zipf.write(file, arcname=arcname, compress_type=ZIP_DEFLATED), for every
\* file that rglob yields and that is not named mimetype
OtherEntries ==
  SetToBag({<<ChapterFile(d), "deflated">> : d \in Chapters}
           \cup {<<ImageFile(n), "deflated">> : n \in imgFiles})

\* package_epub, success branch: _archive_directory; its exception is logged.
\* ZipFile(epub_path, "w") has created the file when mimetype is found
\* missing; a write that raises leaves the entries written before it
ArchiveDirectory ==
  /\ pc = "archive"
  /\ \E exists \in BOOLEAN :
       /\ mimetype' = exists
       /\ IF exists
          THEN \/ /\ archive' = "complete"
                  /\ zip' = [first |-> MimetypeEntry, rest |-> OtherEntries]
               \/ /\ archive' = "partial"
                  /\ zip' \in {NoEntries, [first |-> MimetypeEntry, rest |-> EmptyBag]}
          ELSE /\ archive' = "partial"
               /\ zip' = NoEntries
  /\ pc' = "report"
  /\ UNCHANGED <<raised, epubAt, tempCreated, tempExists, imgFiles,
                 order, nChapters, docDisk, task, results, dpc, idx, soup,
                 pendingUpd, loaded, lock, discovered, docFailure, toRemove,
                 deleted, target, report, rmtreeFailed, selected, docInput, restVars>>

\* package_epub, other branch: epub_path.rename(target_path / name); its
\* exception is logged
MoveEpub ==
  /\ pc = "move"
  /\ epubAt' \in {target, epubAt}
  /\ pc' = "report"
  /\ UNCHANGED <<raised, tempCreated, tempExists, mimetype, imgFiles,
                 order, nChapters, docDisk, task, results, dpc, idx, soup,
                 pendingUpd, loaded, lock, discovered, docFailure, toRemove,
                 deleted, target, archive, report, rmtreeFailed, selected, zip, docInput, restVars>>

\* ------------------------------- pipeline: stage 6 (create_report), finally
\* create_report: success is False when a result carries an error
CreateReport ==
  /\ pc = "report"
  /\ report' = (\A k \in 1..Len(results) : ~results[k].error)
  /\ pc' = "cleanup"
  /\ UNCHANGED <<raised, epubAt, tempCreated, tempExists, mimetype, imgFiles,
                 order, nChapters, docDisk, task, results, dpc, idx, soup,
                 pendingUpd, loaded, lock, discovered, docFailure, toRemove,
                 deleted, target, archive, rmtreeFailed, selected, zip, docInput, restVars>>

\* cleanup_stage: shutil.rmtree; its exception is logged
CleanupStage ==
  /\ pc = "cleanup"
  /\ IF tempExists
     THEN \E ok \in BOOLEAN :
            /\ tempExists' = ~ok
            /\ rmtreeFailed' = ~ok
     ELSE UNCHANGED <<tempExists, rmtreeFailed>>
  /\ pc' = "done"
  /\ UNCHANGED <<raised, epubAt, tempCreated, mimetype, imgFiles,
                 order, nChapters, docDisk, task, results, dpc, idx, soup,
                 pendingUpd, loaded, lock, discovered, docFailure, toRemove,
                 deleted, target, archive, report, selected, zip, docInput, restVars>>

Next ==
  \/ CreateEpubData
  \/ ExtractEpub
  \/ AnalyzeEpubFiles
  \/ ResizeImages
  \/ \E k \in 1..Len(task) : ResizeSingleImage(k)
  \/ ResizeImagesReturn
  \/ UpdateReferences
  \/ \E d \in Docs : ReadChapter(d)
  \/ \E d \in Docs : SkipTag(d)
  \/ \E d \in Docs : LoadTotalReferences(d)
  \/ \E d \in Docs : StoreTotalReferences(d)
  \/ \E d \in Docs : WriteChapter(d)
  \/ \E d \in Docs : UpdateCounters(d)
  \/ UpdateReferencesReturn
  \/ RemoveUnusedImages
  \/ UnlinkImage
  \/ RemoveUnusedImagesReturn
  \/ ArchiveDirectory
  \/ MoveEpub
  \/ CreateReport
  \/ CleanupStage

Spec == Init /\ [][Next]_vars

TypeOK ==
  /\ pc \in {"create", "extract", "analyze", "resize", "resizing", "update",
             "updating", "package", "removing", "archive", "move", "report",
             "cleanup", "done"}
  /\ lock \in 0..NumDocs
  /\ imgFiles \subseteq (NameUniverse \cup {WithSuffix(n, ".jpg") : n \in NameUniverse})

\* ------------------------------------------------- EPUB.move_original_to
\* a call of move_original_to on an archive that exists, with any arguments
\* and any content of the directory
MoveCalled ==
  /\ mvpc = "naming"
  /\ mvSrc = TRUE
  /\ mvDst = "none"
  /\ mvDir \in SUBSET (0..MaxPlus)
  /\ mvRet = "none"
  /\ mvOverwrite \in BOOLEAN
  /\ mvTryRename \in BOOLEAN
  /\ mvPlus = 0
  /\ mvClobbered = FALSE

\* path = directory / name; while (not overwrite) and path.exists(): add "+"
MoveNaming ==
  /\ mvpc = "naming"
  /\ IF ~mvOverwrite /\ mvPlus \in mvDir
     THEN /\ mvPlus' = mvPlus + 1
          /\ UNCHANGED mvpc
     ELSE /\ mvpc' = IF mvTryRename THEN "rename" ELSE "copy"
          /\ UNCHANGED mvPlus
  /\ UNCHANGED <<mvSrc, mvDst, mvDir, mvRet, mvOverwrite, mvTryRename,
                 mvClobbered, pipeVars, imageVars, dimVars, optVars, arcVars>>

\* self.path.rename(path): returns True, or the exception is printed
MoveRename ==
  /\ mvpc = "rename"
  /\ \/ /\ mvSrc' = FALSE
        /\ mvDst' = "original"
        /\ mvDir' = mvDir \ {mvPlus}
        /\ mvClobbered' = (mvPlus \in mvDir)
        /\ mvRet' = "true"
        /\ mvpc' = "returned"
     \/ /\ mvpc' = "copy"
        /\ UNCHANGED <<mvSrc, mvDst, mvDir, mvRet, mvClobbered>>
  /\ UNCHANGED <<mvOverwrite, mvTryRename, mvPlus, pipeVars, imageVars, dimVars, optVars, arcVars>>

\* a copy whose failure is not noticed
CopyRaisedMutant(outcome) == FALSE

\* the except clause around copy2 and unlink is entered when copy2 raises
CopyRaised(outcome) == outcome # "ok"

\* shutil.copy2(self.path, path): complete, nothing written, or partly written
MoveCopy ==
  /\ mvpc = "copy"
  /\ \E outcome \in {"ok", "nothing", "partial"} :
       /\ mvDst' = CASE outcome = "ok" -> "original"
                     [] outcome = "nothing" -> mvDst
                     [] outcome = "partial" -> "partial"
       /\ mvDir' = IF outcome = "nothing" THEN mvDir ELSE mvDir \ {mvPlus}
       /\ mvClobbered' = (outcome # "nothing" /\ mvPlus \in mvDir)
       /\ IF CopyRaised(outcome)
          THEN /\ mvRet' = "false"
               /\ mvpc' = "returned"
          ELSE /\ mvpc' = "unlink"
               /\ UNCHANGED mvRet
  /\ UNCHANGED <<mvSrc, mvOverwrite, mvTryRename, mvPlus, pipeVars, imageVars, dimVars, optVars, arcVars>>

\* self.path.unlink(missing_ok=True): returns True, or the exception is printed
MoveUnlink ==
  /\ mvpc = "unlink"
  /\ \/ /\ mvSrc' = FALSE
        /\ mvRet' = "true"
     \/ /\ mvRet' = "false"
        /\ UNCHANGED mvSrc
  /\ mvpc' = "returned"
  /\ UNCHANGED <<mvDst, mvDir, mvOverwrite, mvTryRename, mvPlus, mvClobbered,
                 pipeVars, imageVars, dimVars, optVars, arcVars>>

MoveNext ==
  \/ MoveNaming
  \/ MoveRename
  \/ MoveCopy
  \/ MoveUnlink

MoveInit == PipeInit /\ MoveCalled /\ ImageIdle /\ DimIdle /\ OptIdle /\ ArcIdle

SpecMove == MoveInit /\ [][MoveNext]_vars

\* -------------------------------- _resize_single_image on one file, twice
\* the files an archive may hold in EPUB/Images
A_JPEG == <<"a", ".jpeg">>
A_UPPER_PNG == <<"a", ".PNG">>
C_GIF == <<"c", ".gif">>

ImageNames == NameUniverse \cup {A_JPEG, A_UPPER_PNG, C_GIF}

\* st_size of a file that image.save has written
SavedSizes == {2048, 102400, 204800}

ImageFiles ==
  [name : ImageNames, size : Sizes, mode : Modes, alphaMin : AlphaMins,
   dims : Dimensions]

\* _resize_single_image(image_path): the result it returns (stats, with
\* original_size and new_size) and the file that is at new_path afterwards;
\* fault is the statement that raises, savedSize the size of the file written
ResizeOutcome(file, fault, savedSize) ==
  LET path      == file.name
      newMode   == CalculateNewMode(file.mode, file.alphaMin)
      newPath   == CalculateNewPath(path, newMode)
      newDims   == CalculateNewDimensions(file.dims, MaxWidth)
      toResize  == file.dims # newDims
      toConvert == newMode = "RGB"
      toSave    == toResize \/ toConvert
      stats(ok, did) == [orig |-> path, new |-> newPath, success |-> ok,
                         error |-> ~ok, total |-> 0, updated |-> 0, did |-> did]
  IN
  IF LowerSuffix(path) \notin SupportedSuffixes \/ file.size < SizeThreshold
  THEN [stats |-> SkippedStats(path), originalSize |-> file.size,
        newSize |-> file.size, newMode |-> "None", file |-> file]
  ELSE IF fault # "none"
  THEN [stats |-> stats(FALSE, "failed"), originalSize |-> file.size,
        newSize |-> 0, newMode |-> newMode, file |-> file]
  ELSE IF toSave
  THEN [stats |-> stats(TRUE, "saved"), originalSize |-> file.size,
        newSize |-> savedSize, newMode |-> newMode,
        file |-> [name |-> newPath, size |-> savedSize,
                  mode |-> IF toConvert THEN "RGB" ELSE file.mode,
                  alphaMin |-> IF toConvert THEN 255 ELSE file.alphaMin,
                  dims |-> newDims]]
  ELSE [stats |-> stats(TRUE, "noop"), originalSize |-> file.size,
        newSize |-> file.size, newMode |-> newMode, file |-> file]

\* the statements of the try block that can raise for this file
FaultsOf(file) ==
  LET newMode == CalculateNewMode(file.mode, file.alphaMin)
      toResize == file.dims # CalculateNewDimensions(file.dims, MaxWidth)
  IN  {"none"} \cup (IF toResize THEN {"resize"} ELSE {})
               \cup (IF toResize \/ newMode = "RGB" THEN {"save"} ELSE {})

\* an image file of an archive
ImageInit ==
  /\ PipeInit /\ MoveIdle /\ DimIdle /\ OptIdle /\ ArcIdle
  /\ ipc = "first"
  /\ file0 \in ImageFiles
  /\ run1 = <<>>
  /\ run2 = <<>>

\* the transform of the first run
ImageFirstRun ==
  /\ ipc = "first"
  /\ \E fault \in FaultsOf(file0), savedSize \in SavedSizes :
       run1' = ResizeOutcome(file0, fault, savedSize)
  /\ ipc' = "second"
  /\ UNCHANGED <<file0, run2, pipeVars, moveVars, dimVars, optVars, arcVars>>

\* the transform of a second run, on the file the first run left at new_path
ImageSecondRun ==
  /\ ipc = "second"
  /\ \E fault \in FaultsOf(run1.file), savedSize \in SavedSizes :
       run2' = ResizeOutcome(run1.file, fault, savedSize)
  /\ ipc' = "end"
  /\ UNCHANGED <<file0, run1, pipeVars, moveVars, dimVars, optVars, arcVars>>

ImageNext ==
  \/ ImageFirstRun
  \/ ImageSecondRun

SpecImage == ImageInit /\ [][ImageNext]_vars

\* ------------------------------------------------ calculate_new_dimensions
\* the arguments of the call; a max_height of 0 stands for None
DimWidths == {500, 800, 1080, 1081, 2000, 2160}
DimHeights == {600, 1000, 1620, 3000, 4000}
DimMaxWidths == {720, 1080}
DimMaxHeights == {0, 1000, 2000}

\* calculate_new_dimensions(max_width, max_height); int(x * ratio) with a
\* float ratio is the integer quotient on every argument drawn here
CalculateNewDimensionsWithHeight(dims, maxWidth, maxHeight) ==
  LET width    == dims[1]
      height   == dims[2]
      clampedW == IF width > maxWidth THEN maxWidth ELSE width
      clampedH == IF width > maxWidth THEN (height * maxWidth) \div width ELSE height
  IN  IF maxHeight # 0 /\ clampedH > maxHeight
      THEN <<(width * maxHeight) \div clampedH, maxHeight>>
      ELSE <<clampedW, clampedH>>

DimInit ==
  /\ PipeInit /\ MoveIdle /\ ImageIdle /\ OptIdle /\ ArcIdle
  /\ dimpc = "call"
  /\ dimArgs \in [dims : DimWidths \X DimHeights, maxWidth : DimMaxWidths,
                  maxHeight : DimMaxHeights]
  /\ dimOut = <<>>

\* one call of calculate_new_dimensions
DimCalculate ==
  /\ dimpc = "call"
  /\ dimOut' = CalculateNewDimensionsWithHeight(dimArgs.dims, dimArgs.maxWidth,
                                                dimArgs.maxHeight)
  /\ dimpc' = "returned"
  /\ UNCHANGED <<dimArgs, pipeVars, moveVars, imageVars, optVars, arcVars>>

DimNext == DimCalculate

SpecDims == DimInit /\ [][DimNext]_vars

\* ---------------------- ImageProcessor.optimize_image (image_processor_new)
\* ImageSettings.evaluate fails: below size_lower_threshold, or a suffix that
\* is not supported (size_upper_threshold is 0: no upper limit)
NotEligibleFile(file) ==
  file.size < SizeThreshold \/ LowerSuffix(file.name) \notin SupportedSuffixes

\* ImageSettings.construct_new_image: only a .png is given the suffix .jpg
ConstructNewPath(path, newMode) ==
  IF newMode = "RGB" /\ LowerSuffix(path) = ".png"
  THEN WithSuffix(path, ".jpg") ELSE path

\* the files of the directory after optimize_and_save has written savedSize
\* bytes to newPath and delete_file_if_size_is_same has run on the original:
\* the original is unlinked when the size found at its path is the size that
\* evaluate has cached
DiskAfterOptimize(file, newPath, savedSize) ==
  LET sizeAtPath == IF newPath = file.name THEN savedSize ELSE file.size
  IN  IF sizeAtPath = file.size
      THEN ({file.name} \cup {newPath}) \ {file.name}
      ELSE {file.name} \cup {newPath}

OptInit ==
  /\ PipeInit /\ MoveIdle /\ ImageIdle /\ DimIdle /\ ArcIdle
  /\ opc = "call"
  /\ ofile \in ImageFiles
  /\ odisk = {ofile.name}
  /\ ores = <<>>

\* ImageProcessor.optimize_image(path), one call
OptimizeImage ==
  /\ opc = "call"
  /\ LET newMode == CalculateNewMode(ofile.mode, ofile.alphaMin)
         newPath == ConstructNewPath(ofile.name, newMode)
     IN
     IF NotEligibleFile(ofile)
     THEN /\ ores' = [success |-> TRUE, did |-> "skipped", orig |-> ofile.name,
                      new |-> ofile.name]
          /\ UNCHANGED odisk
     ELSE \E fault \in {"none", "open", "save"}, savedSize \in SavedSizes :
            IF fault = "none"
            THEN /\ ores' = [success |-> TRUE, did |-> "saved",
                             orig |-> ofile.name, new |-> newPath]
                 /\ odisk' = DiskAfterOptimize(ofile, newPath, savedSize)
            ELSE /\ ores' = [success |-> FALSE, did |-> "failed",
                             orig |-> ofile.name, new |-> ofile.name]
                 /\ UNCHANGED odisk
  /\ opc' = "returned"
  /\ UNCHANGED <<ofile, pipeVars, moveVars, imageVars, dimVars, arcVars>>

OptNext == OptimizeImage

SpecOptimize == OptInit /\ [][OptNext]_vars

\* ----------------------------------- _archive_directory on a directory tree
\* relative paths of regular files a working directory may hold
ArcPaths ==
  {<<"mimetype">>, <<"META-INF", "container.xml">>, <<"META-INF", "mimetype">>,
   <<"EPUB", "content.opf">>, <<"EPUB", "mimetype">>,
   <<"EPUB", "chapters", "c1.xhtml">>, <<"EPUB", "Images", "a.jpg">>}

\* Path.name: the last component
NameOf(path) == path[Len(path)]

\* source_dir.rglob("*"): every file and every directory below source_dir
RGlob(files) ==
  files \cup UNION {{SubSeq(path, 1, n) : n \in 1..(Len(path) - 1)} : path \in files}

\* the entries written by the loop over rglob: regular files not named
\* mimetype, under their relative path, deflated
LoopEntries(files) ==
  SetToBag({<<path, "deflated">> :
              path \in {q \in RGlob(files) : q \in files /\ NameOf(q) # "mimetype"}})

ArcInit ==
  /\ PipeInit /\ MoveIdle /\ ImageIdle /\ DimIdle /\ OptIdle
  /\ apc = "call"
  /\ adir \in SUBSET ArcPaths
  /\ azip = NoEntries

\* _archive_directory(source_dir, epub_path), one call
ArchiveTree ==
  /\ apc = "call"
  /\ IF MimetypeFile \in adir
     THEN \/ /\ azip' = [first |-> MimetypeEntry, rest |-> LoopEntries(adir)]
             /\ apc' = "returned"
          \/ /\ azip' = [first |-> MimetypeEntry, rest |-> EmptyBag]
             /\ apc' = "raised"
     ELSE /\ azip' = NoEntries
          /\ apc' = "raised"
  /\ UNCHANGED <<adir, pipeVars, moveVars, imageVars, dimVars, optVars>>

ArcNext == ArchiveTree

SpecArchive == ArcInit /\ [][ArcNext]_vars

\* ------------------------------------------------------------ the outcomes
Finished == pc = "done"

\* the run wrote the new archive to the resized directory
Packaged == target = "resized" /\ archive = "complete"

Quarantined == target = "quarantine"

Unchanged == target = "unchanged"

\* a chapter task failed
ChapterFailed(d) == docFailure[d] # "none"

\* the file name belongs to an image of the archive, before or after renaming
ManagedImage(name) ==
  \E k \in 1..Len(results) : results[k].orig = name \/ results[k].new = name

\* ------------------------------------------------------------- the claims

\* C1: in a run that ends Packaged, every image reference of every chapter
\* that names a managed image names a file that is present in the images
\* directory that was packaged.
C1_NoDanglingReference ==
  (Finished /\ Packaged) =>
    \A d \in Chapters : \A i \in 1..Len(docDisk[d]) :
      ManagedImage(FileOfSrc(docDisk[d][i])) => FileOfSrc(docDisk[d][i]) \in imgFiles

\* C2: when a chapter task has failed (parse or write error), the run ends
\* Quarantined, with no new archive written and a false success flag.
C2_ChapterFailureQuarantines ==
  (Finished /\ \E d \in Chapters : ChapterFailed(d)) =>
    (Quarantined /\ archive = "none" /\ report = FALSE)

\* C3: when a chapter failed to write, no image file is deleted during the
\* run.
C3_WriteFailureDeletesNothing ==
  (\E d \in Chapters : docFailure[d] = "write") => deleted = {}

\* C4: images are removed and the archive is packaged only when the number
\* of images selected for removal equals the number of renamed images; when
\* the two differ, nothing is deleted, no archive is written and the run
\* ends Quarantined.
C4_CountMismatchQuarantines ==
  /\ (pc \in {"removing", "archive"} \/ deleted # {} \/ archive # "none")
        => selected = RenamedCount
  /\ (Finished /\ target # "none" /\ selected # RenamedCount)
        => (deleted = {} /\ archive = "none" /\ Quarantined)

\* every image was skipped as not eligible or was an eligible no-op
NoImageChanged ==
  \A k \in 1..Len(results) : results[k].did \in {"skipped", "noop"}

\* C5: when no image requires any change, the run ends Unchanged, nothing
\* is packaged, no new archive is produced and the report does not flag an
\* error.
C5_NothingToChangeIsUnchanged ==
  (Finished /\ ~raised /\ NoImageChanged) =>
    (Unchanged /\ archive = "none" /\ report = TRUE)

\* C6: after a completed run the original archive is in the directory that
\* matches the outcome (processed when Packaged, unchanged when Unchanged,
\* quarantine when Quarantined) and never at its source location.
C6_OriginalMovedToOutcomeDirectory ==
  (Finished /\ ~raised) =>
    /\ epubAt # "source"
    /\ Packaged => epubAt = "processed"
    /\ Unchanged => epubAt = "unchanged"
    /\ Quarantined => epubAt = "quarantine"

C8_PhaseBarriers ==
  /\ (\E d \in Docs : dpc[d] \notin {"idle", "start"})
        => \A k \in 1..Len(task) : task[k] # "pending"
  /\ pc \in {"package", "removing", "archive", "move"}
        => \A d \in Docs : dpc[d] \in {"idle", "done", "failed"}

\* C8 witness: validation is entered after two image tasks and two chapter
\* tasks have returned.
C8_Witness ==
  /\ pc = "package"
  /\ Len(task) >= 2
  /\ nChapters >= 2
  /\ \A d \in Chapters : dpc[d] \in {"done", "failed"}

\* C9: once the rewriting phase is over, total_references of every image
\* equals the number of references the chapter tasks found for it.
C9_NoLostIncrement ==
  pc \in {"package", "removing", "archive", "move", "report", "cleanup", "done"}
    => \A k \in 1..Len(results) : results[k].total = discovered[k]

\* C9 witness: two chapter tasks have counted a reference to the same image.
C9_Witness ==
  /\ pc = "package"
  /\ \E k \in 1..Len(results) : results[k].total = 2 /\ discovered[k] = 2

\* C10: when move_original_to has returned, the archive is at its source
\* path or at the destination path, and it is at its source path whenever
\* the call returned False.
C10_MoveNeverLosesOriginal ==
  mvpc = "returned" =>
    /\ mvSrc \/ mvDst = "original"
    /\ mvRet = "false" => mvSrc

\* C10 witness: rename and copy both failed, the call returned False and
\* the archive is still at its source path.
C10_Witness ==
  /\ mvpc = "returned"
  /\ mvRet = "false"
  /\ mvTryRename
  /\ mvDst # "original"
  /\ mvSrc

\* C11: a call of move_original_to never writes over a file that is already
\* in the destination directory under the same name; a marker is appended to
\* the name instead.
C11_MoveNeverOverwrites ==
  mvpc = "returned" => ~mvClobbered

\* the run returned the resized destination, left a file at the path of the
\* new archive and reported success
EndsAsPackaged == target = "resized" /\ archive # "none" /\ report = TRUE

\* C12: a complete new archive has the mimetype marker as its first entry,
\* stored without compression, and every other entry deflated; when the
\* marker is missing from the working directory, packaging fails and the
\* run does not end as Packaged.
C12_MimetypeFirstOrNotPackaged ==
  /\ archive = "complete" =>
        /\ zip.first = <<MimetypeFile, "stored">>
        /\ \A e \in BagToSet(zip.rest) : e[1] # MimetypeFile /\ e[2] = "deflated"
  /\ (Finished /\ archive # "none" /\ ~mimetype) =>
        (archive # "complete" /\ ~EndsAsPackaged)

\* C13: when a run on an existing archive has met a failure (an exception
\* that reached the orchestrator, or a failed chapter task), it has returned
\* with the archive classified as Quarantined and the original in the
\* quarantine destination.
C13_FailureIsCaughtAndQuarantined ==
  (Finished /\ tempCreated /\ (raised \/ \E d \in Chapters : ChapterFailed(d))) =>
    (Quarantined /\ epubAt = "quarantine")

\* the number of img tags of the extracted chapters that name the image
RefCount(name) ==
  Cardinality({p \in Docs \X (1..MaxRefs) :
                 /\ p[2] <= Len(docInput[p[1]])
                 /\ docInput[p[1]][p[2]] = SrcOf(name)})

\* the removal step has returned and no chapter task failed
RoundTripDone ==
  /\ target = "resized"
  /\ \A d \in Chapters : ~ChapterFailed(d)

\* C14: when an image is successfully renamed and the chapters hold n >= 1
\* references to it, then after rewriting and removal every one of them
\* reads the new name, total_references = n, updated_references = n, the
\* reference status is success and the original file is gone.
C14_RoundTrip ==
  RoundTripDone =>
    \A k \in 1..Len(results) :
      LET r == results[k] IN
      (r.success /\ Renamed(r) /\ RefCount(r.orig) >= 1) =>
        /\ \A d \in Chapters : \A i \in 1..Len(docInput[d]) :
              docInput[d][i] = SrcOf(r.orig) => docDisk[d][i] = SrcOf(r.new)
        /\ r.total = RefCount(r.orig)
        /\ r.updated = RefCount(r.orig)
        /\ ReferencesUpdateStatus(r) = "success"
        /\ r.orig \notin imgFiles

\* C15: a second run on the output of a successful first run changes
\* nothing: the image is not resized, converted, re-encoded or renamed (so
\* the second run is Unchanged and writes no archive).
C15_SecondRunChangesNothing ==
  (ipc = "end" /\ run1.stats.did \in {"saved", "noop", "skipped"}
     /\ run2.stats.did # "failed") =>
    (run2.stats.did \in {"noop", "skipped"} /\ ~Renamed(run2.stats)
       /\ run2.file = run1.file)

\* the file fails the eligibility filter of _resize_single_image
NotEligible(file) ==
  LowerSuffix(file.name) \notin SupportedSuffixes \/ file.size < SizeThreshold

\* C16: for an image that fails the eligibility filter the transform returns
\* a result with success = true that is not renamed, and leaves the file as
\* it was.
C16_NotEligibleIsSuccess ==
  (ipc # "first" /\ NotEligible(file0)) =>
    (run1.stats.success /\ ~Renamed(run1.stats) /\ run1.file = file0)

\* C17: no successful result has new_size above the original size, and a
\* result that keeps a newly written file has new_size below it (a file that
\* is not smaller is discarded and the result is a no-op).
C17_ShrinkGuard ==
  (ipc # "first" /\ run1.stats.success) =>
    /\ run1.newSize <= run1.originalSize
    /\ run1.stats.did = "saved" => run1.newSize < run1.originalSize

\* C18: for an RGBA image whose minimum alpha is 255 the target mode is RGB
\* and the new path has the suffix .jpg; for an RGBA image with a pixel that
\* is not fully opaque the target mode is RGBA and the path is unchanged.
C18_AlphaDecidesModeAndSuffix ==
  (ipc # "first" /\ file0.mode = "RGBA" /\ ~NotEligible(file0)) =>
    IF file0.alphaMin = 255
    THEN /\ run1.newMode = "RGB"
         /\ run1.stats.new = SubSeq(file0.name, 1, Len(file0.name) - 1) \o <<".jpg">>
    ELSE /\ run1.newMode = "RGBA"
         /\ run1.stats.new = file0.name

\* C18 witness: a fully opaque RGBA a.png has been converted and saved as
\* a.jpg in mode RGB.
C18_Witness ==
  /\ ipc = "second"
  /\ file0.mode = "RGBA"
  /\ file0.alphaMin = 255
  /\ file0.name = A_PNG
  /\ run1.stats.did = "saved"
  /\ run1.file.name = A_JPG
  /\ run1.file.mode = "RGB"

\* |x|
Abs(x) == IF x < 0 THEN 0 - x ELSE x

\* C19: the new dimensions keep the aspect ratio up to integer truncation,
\* are within max_width and within max_height when that is set (also when
\* both limits apply), and are the original ones when no limit is exceeded.
C19_DimensionsWithinLimits ==
  dimpc = "returned" =>
    LET w  == dimArgs.dims[1]
        h  == dimArgs.dims[2]
        mw == dimArgs.maxWidth
        mh == dimArgs.maxHeight
    IN  /\ dimOut[1] <= mw
        /\ mh # 0 => dimOut[2] <= mh
        /\ Abs(dimOut[1] * h - dimOut[2] * w) < w + h
        /\ (w <= mw /\ (mh = 0 \/ h <= mh)) => dimOut = dimArgs.dims

\* C20: a decode or write failure of one image gives a result with
\* success = false for that image only: once the transform phase is over
\* there is one result per image, every sibling task has returned, and no
\* image task has raised into resize_images and the orchestrator.
C20_ImageFailureIsPerImage ==
  pc # "resizing" =>
    \A k \in 1..Len(task) :
      /\ task[k] = "done"
      /\ results[k].orig = order[k]
      /\ results[k].did = "failed" => (~results[k].success /\ results[k].error)

\* neither the dimensions nor the mode of the file change
NothingToChange(file) ==
  /\ CalculateNewDimensions(file.dims, MaxWidth) = file.dims
  /\ CalculateNewMode(file.mode, file.alphaMin) = file.mode

\* C21: for an eligible image whose target dimensions and target mode equal
\* the source ones (an RGB image within the size limits included) the
\* transform is a no-op: no file is written and the result is not renamed.
C21_NothingToChangeIsNoop ==
  (ipc # "first" /\ ~NotEligible(file0) /\ NothingToChange(file0)) =>
    (run1.stats.did \in {"noop", "failed"} /\ ~Renamed(run1.stats)
       /\ run1.file = file0)

\* the suffixes of a JPEG file, in lower case
JpegSuffixes == {".jpg", ".jpeg"}

\* C22: a result is renamed only when the target mode is a non-alpha mode
\* and the source suffix is not a JPEG suffix; an image whose suffix is .jpg
\* or .jpeg keeps its path.
C22_RenamedOnlyFromNonJpeg ==
  (ipc # "first" /\ Renamed(run1.stats)) =>
    (run1.newMode \in {"RGB", "L"}
       /\ LowerSuffix(file0.name) \notin JpegSuffixes)

\* C23: after a transform that returns success a file is at the new path,
\* and the file at the original path is gone if and only if the result is
\* renamed; a non-renamed image is never left with no file on disk.
C23_OriginalDeletedIffRenamed ==
  (opc = "returned" /\ ores.success) =>
    (ores.new \in odisk /\ (ores.orig \notin odisk <=> Renamed(ores)))

\* the results whose original filename is the filename component of src
KnownImage(src) == {k \in 1..Len(results) : results[k].orig = FileOfSrc(src)}

\* chapter task d leaves the lock after counting the tag it is looking at
CountsReference(d) == dpc[d] = "locked" /\ dpc'[d] = "scan"

\* C24: for a reference that resolves to a known image that is not renamed
\* or not successfully transformed, the rewriter adds exactly one to that
\* image's total_references, leaves its updated_references and pending
\* updates as they are, and leaves the src value of the tag unchanged.
C24_UnrenamedReferenceOnlyCounted ==
  [][\A d \in Docs : CountsReference(d) =>
       \A k \in KnownImage(CurrentSrc(d)) :
         (~Renamed(results[k]) \/ ~results[k].success) =>
           /\ results'[k].total = results[k].total + 1
           /\ results'[k].updated = results[k].updated
           /\ pendingUpd'[d][k] = pendingUpd[d][k]
           /\ soup'[d][idx[d]] = CurrentSrc(d)]_vars

\* C25: a reference is attributed to at most one image, the one whose
\* original filename is the filename component of the reference: no other
\* image is counted for it or has its pending updates raised by it, and the
\* tag keeps its value or is given the new path of that very image.
C25_ReferenceMatchedByFilename ==
  [][\A d \in Docs : CountsReference(d) =>
       /\ \A k \in 1..Len(results) :
            (results'[k] # results[k] \/ pendingUpd'[d][k] # pendingUpd[d][k])
              => k \in KnownImage(CurrentSrc(d))
       /\ soup'[d][idx[d]] \in
            {CurrentSrc(d)} \cup {SrcOf(results[k].new) : k \in KnownImage(CurrentSrc(d))}]_vars

\* write_bytes has been called on chapter d (it returned or it raised)
WrittenBack(d) == dpc[d] \in {"written", "done"} \/ docFailure[d] = "write"

\* C26: a document is written back to disk only if at least one of its
\* references was rewritten; a document with no rewritten reference is not
\* written to.
C26_WrittenOnlyIfRewritten ==
  \A d \in Chapters :
    WrittenBack(d) => \E k \in 1..Len(results) : pendingUpd[d][k] > 0

\* image task k has written a file at the new path of its result
WroteFile(k) == results[k].did = "saved"

\* C27: in the transform phase a task touches only the files of its own
\* image: no task writes over the file of another image of the archive, and
\* no two tasks write to the same path.
C27_TasksWriteOwnFilesOnly ==
  \A k, j \in 1..Len(results) :
    (k # j /\ WroteFile(k)) =>
      /\ results[k].new # order[j]
      /\ WroteFile(j) => results[j].new # results[k].new

\* C28: in every state during and after reference rewriting, whatever the
\* interleaving of the chapter tasks and whichever chapter writes fail, each
\* image has 0 <= updated_references <= total_references, and
\* updated_references > 0 only if it is renamed and successfully transformed.
C28_UpdatedWithinTotal ==
  \A k \in 1..Len(results) :
    /\ 0 <= results[k].updated
    /\ results[k].updated <= results[k].total
    /\ results[k].updated > 0 => (Renamed(results[k]) /\ results[k].success)

\* C28 witness: an image referenced by two chapters, one of which was
\* written and counted while the write of the other failed.
C28_Witness ==
  /\ pc = "package"
  /\ \E d \in Chapters : docFailure[d] = "write"
  /\ \E k \in 1..Len(results) :
       /\ results[k].total = 2
       /\ results[k].updated = 1

\* an image was written in place: saved successfully under its own name
ModifiedInPlace(k) ==
  results[k].did = "saved" /\ results[k].success /\ ~Renamed(results[k])

\* C29: if an image was resized or re-encoded in place while no image was
\* renamed, the run is not classified Unchanged: the working directory is
\* repackaged into the resized directory.
C29_InPlaceChangeIsRepackaged ==
  (Finished /\ ~raised
     /\ (\E k \in 1..Len(results) : ModifiedInPlace(k))
     /\ (\A k \in 1..Len(results) : ~Renamed(results[k]))) =>
    (~Unchanged /\ target = "resized" /\ archive # "none")

\* the number of entries of the archive written under the name path
EntriesNamed(path) ==
  (IF azip.first # <<>> /\ azip.first[1] = path THEN 1 ELSE 0)
    + CopiesIn(<<path, "stored">>, azip.rest)
    + CopiesIn(<<path, "deflated">>, azip.rest)

\* C30: repackaging writes every regular file of the working directory to
\* the archive exactly once under its relative path and writes nothing
\* else: a file named mimetype in a subdirectory is not dropped and the root
\* mimetype is not written twice.
C30_EveryFileArchivedOnce ==
  apc = "returned" =>
    /\ \A path \in adir : EntriesNamed(path) = 1
    /\ \A entry \in BagToSet(azip.rest) : entry[1] \in adir

====
